---- MODULE Spec2Model ----
(***************************************************************************)
(* A model of the analytics engine of RateWatch (src/analytics):           *)
(*   - Backtester.backtest_signals / calculate_performance_metrics         *)
(*   - SignalGenerator.generate_sentiment_signals                          *)
(*   - EventStudyAnalyzer.measure_market_impact / conduct_event_study      *)
(*   - CorrelationAnalyzer.calculate_lead_lag_correlation,                 *)
(*     get_sentiment_timeseries / get_yield_timeseries and                 *)
(*     rolling_correlation                                                 *)
(*                                                                         *)
(* Time is counted in whole hours.  Floating point numbers are modelled    *)
(* as exact fractions [n, d] in lowest terms with d >= 0; d = 0 encodes    *)
(* the non-finite values numpy produces: n = 1 is +inf, n = -1 is -inf and *)
(* n = 0 is NaN.  Rounding is not modelled.                                *)
(***************************************************************************)
EXTENDS Integers, Sequences, FiniteSets, TLC

VARIABLES
    pc,                    \* which step of which operation runs next
    \* ---- Backtester (signals.py)
    prices_df,             \* rows [timestamp, value], as get_market_prices returns them
    holding_hours,         \* argument of backtest_signals
    transaction_cost_pct,  \* argument of backtest_signals
    signals_df,            \* the rows of signals_df the loop has iterated over
    results,               \* the list `results` of backtest_signals
    metrics,               \* the dict calculate_performance_metrics returns
    \* ---- SignalGenerator (signals.py)
    df,                    \* the frame `df` of generate_sentiment_signals
    aggregation_hours,     \* argument of generate_sentiment_signals
    sentiment_threshold,   \* argument of generate_sentiment_signals
    signals_out,           \* the DataFrame generate_sentiment_signals returns
    \* ---- EventStudyAnalyzer (event_studies.py)
    market_data,           \* the rows of table market_data for the instrument
    window_hours,          \* argument of measure_market_impact / conduct_event_study
    event_timestamp,       \* argument of measure_market_impact
    impact,                \* the dict measure_market_impact returns
    events_df,             \* the events conduct_event_study has iterated over
    study_results,         \* the list `results` of conduct_event_study
    study_report,          \* summary and significance of run_full_event_study
    \* ---- CorrelationAnalyzer (correlations.py)
    sentiment_df,          \* rows [timestamp, avg_sentiment]
    yield_df,              \* rows [timestamp, value]
    lag_hours,             \* the lags the loop has iterated over
    corr_results,          \* the list `results` of calculate_lead_lag_correlation
    analysis_df,           \* the frame `analysis_df` of the last iteration of its loop
    sentiment_rows,        \* what the query on sentiment_aggregates returns
    market_rows,           \* what the query on market_data returns for the instrument
    freq,                  \* argument of get_*_timeseries, in hours (1, 4 or 24)
    merged_df,             \* the frame `merged` that pd.merge returns
    window_days,           \* argument of rolling_correlation
    rolling_lag_hours,     \* argument lag_hours of rolling_correlation
    result_df              \* the frame rolling_correlation returns

btVars == <<prices_df, holding_hours, transaction_cost_pct, signals_df, results, metrics>>
sgVars == <<df, aggregation_hours, sentiment_threshold, signals_out>>
esVars == <<market_data, window_hours, event_timestamp, impact, events_df,
            study_results, study_report>>
alVars == <<sentiment_rows, market_rows, freq, merged_df, window_days, rolling_lag_hours,
            result_df>>
caVars == <<sentiment_df, yield_df, lag_hours, corr_results, analysis_df, alVars>>
vars == <<pc, btVars, sgVars, esVars, caVars>>

\* A component that takes no part in a specification stays in this state.
IdleBt == /\ prices_df = <<>> /\ holding_hours = 0 /\ transaction_cost_pct = [n |-> 0, d |-> 1]
          /\ signals_df = <<>> /\ results = <<>> /\ metrics = [empty |-> TRUE]
IdleSg == /\ df = <<>> /\ aggregation_hours = 1 /\ sentiment_threshold = [n |-> 0, d |-> 1] /\ signals_out = <<>>
IdleEs == /\ market_data = <<>> /\ window_hours = 0 /\ event_timestamp = 0
          /\ impact = [empty |-> TRUE] /\ events_df = <<>> /\ study_results = <<>>
          /\ study_report = [empty |-> TRUE]
IdleAl == /\ sentiment_rows = <<>> /\ market_rows = <<>> /\ freq = 1 /\ merged_df = <<>>
          /\ window_days = 0 /\ rolling_lag_hours = 0 /\ result_df = <<>>
IdleCa == /\ sentiment_df = <<>> /\ yield_df = <<>> /\ lag_hours = <<>> /\ corr_results = <<>>
          /\ analysis_df = <<>>
          /\ IdleAl

----------------------------------------------------------------------------
(* Bounds of the model.                                                    *)
MaxPrices == 2      \* rows of prices_df
MaxSignals == 2     \* rows of signals_df
MaxTrades == 3      \* rows of a backtest_df handed to the metrics
MaxSentimentRows == 2  \* rows of sentiment_aggregates the query returns
MaxObs == 5         \* rows of market_data
MaxEvents == 3      \* events of one event study
MaxStudyRows == 3    \* rows of an event_study_df handed to the statistics
MaxRows == 12       \* rows of a sentiment or yield time series
MaxLags == 2        \* lags of one lead-lag analysis
MaxRawRows == 3     \* rows a query returns for an alignment
MaxBuckets == 5     \* 4-hour buckets of a rolling correlation

\* Timestamps of the backtest inputs, in hours.
Times == 0..2

----------------------------------------------------------------------------
(* Floating point values as exact fractions.                               *)

Abs(x) == IF x < 0 THEN -x ELSE x
Sign(x) == IF x < 0 THEN -1 ELSE IF x > 0 THEN 1 ELSE 0

RECURSIVE GCD(_, _)
GCD(a, b) == IF b = 0 THEN a ELSE GCD(b, a % b)

\* The fraction n/d in lowest terms, d >= 0; n/0 is +inf, -inf or NaN.
Norm(n, d) ==
    IF d = 0 THEN [n |-> Sign(n), d |-> 0]
    ELSE LET g == GCD(Abs(n), Abs(d))
         IN  [n |-> Sign(d) * (n \div g), d |-> Abs(d) \div g]

Num(i) == [n |-> i, d |-> 1]
NaN == [n |-> 0, d |-> 0]
Inf == [n |-> 1, d |-> 0]
IsNaN(a) == a.d = 0 /\ a.n = 0
IsFinite(a) == a.d # 0

RNeg(a) == [n |-> -a.n, d |-> a.d]
RAdd(a, b) ==
    IF a.d = 0 /\ b.d = 0 THEN (IF a.n = b.n THEN a ELSE NaN)
    ELSE Norm(a.n * b.d + b.n * a.d, a.d * b.d)
RSub(a, b) == RAdd(a, RNeg(b))
RMul(a, b) == Norm(a.n * b.n, a.d * b.d)
RInv(b) ==
    IF b.d = 0 THEN (IF b.n = 0 THEN NaN ELSE Num(0))
    ELSE IF b.n = 0 THEN Inf
    ELSE Norm(b.d, b.n)
RDiv(a, b) == RMul(a, RInv(b))
RAbs(a) == [n |-> Abs(a.n), d |-> a.d]

\* Comparisons: every comparison with NaN is false, except `!=`.
REq(a, b) == ~IsNaN(a) /\ ~IsNaN(b) /\ a = b
RNe(a, b) == ~REq(a, b)
RLt(a, b) ==
    /\ ~IsNaN(a) /\ ~IsNaN(b)
    /\ IF a.d # 0 /\ b.d # 0 THEN a.n * b.d < b.n * a.d
       ELSE IF a.d = 0 THEN a.n = -1 /\ b # a
       ELSE b.n = 1
RGt(a, b) == RLt(b, a)

\* The sum of a sequence of values (0.0 for the empty one, as pandas sums).
RECURSIVE RSum(_)
RSum(s) == IF s = <<>> THEN Num(0) ELSE RAdd(s[1], RSum(Tail(s)))

\* Column c of a sequence of rows.
Col(s, c) == [i \in 1..Len(s) |-> s[i][c]]

RMean(values) == RDiv(RSum(values), Num(Len(values)))

\* Series.std() squared: the sample variance, NaN for fewer than 2 values.
RSquare(a) == RMul(a, a)
RVariance(values) ==
    LET mean == RMean(values)
        sq == [i \in 1..Len(values) |-> RSquare(RSub(values[i], mean))]
    IN  RDiv(RSum(sq), Num(Len(values) - 1))

\* All sequences of at most n rows of Rows whose timestamps increase by at
\* least gap from one row to the next: the shape of a query result that is
\* ORDER BY timestamp (gap 0), one row per timestamp with gap 1.
RECURSIVE OrderedSeqs(_, _, _)
OrderedSeqs(Rows, n, gap) ==
    IF n = 0 THEN {<<>>}
    ELSE LET shorter == OrderedSeqs(Rows, n - 1, gap)
         IN  shorter \cup
             UNION {{Append(s, r) :
                        r \in {q \in Rows :
                                  s = <<>> \/ s[Len(s)].timestamp + gap <= q.timestamp}} :
                    s \in {x \in shorter : Len(x) = n - 1}}

----------------------------------------------------------------------------
(* Backtester.backtest_signals (signals.py 203-282)                        *)

SignalTypes == {"BUY_TLT", "SELL_TLT", "NEUTRAL"}

\* The rows signals_df may hold: the strength and the sentiment are copied
\* into the trade and nothing else is done with them.
SignalRows ==
    {[timestamp |-> t, signal_type |-> ty,
      signal_strength |-> (IF ty = "NEUTRAL" THEN Num(0) ELSE Norm(1, 2)),
      avg_sentiment |-> (IF ty = "BUY_TLT" THEN Norm(1, 2)
                         ELSE IF ty = "SELL_TLT" THEN Norm(-1, 2) ELSE Num(0))] :
        t \in Times, ty \in SignalTypes}

\* Prices of the instrument (TLT quotes), and the price series the query of
\* get_market_prices returns: ORDER BY timestamp, not empty (run_full_backtest
\* stops before the backtest on an empty one).
PriceValues == {1, 2}
PriceRows == [timestamp : Times, value : PriceValues]
PriceSeries(n) == {s \in OrderedSeqs(PriceRows, n, 0) : s # <<>>}

HoldingHours == {-1, 0, 1}
TransactionCosts == {Num(0), Norm(1, 10)}

\* Mutant of FirstAtOrAfter: the mask compares with `>` instead of `>=`.
FirstStrictlyAfter(prices, t) ==
    LET mask == {k \in 1..Len(prices) : prices[k].timestamp > t}
    IN  IF mask = {} THEN 0 ELSE CHOOSE k \in mask : \A j \in mask : k <= j

\* prices_df[mask].index[0], or 0 when not mask.any(): the first row, in
\* the order of the frame, whose timestamp is at or after t.
FirstAtOrAfter(prices, t) ==
    LET mask == {k \in 1..Len(prices) : prices[k].timestamp >= t}
    IN  IF mask = {} THEN 0 ELSE CHOOSE k \in mask : \A j \in mask : k <= j

EntryIdx(prices, signal) == FirstAtOrAfter(prices, signal.timestamp)

\* exit_time = entry_time + timedelta(hours=holding_hours)
ExitTime(entry_time, hold) == entry_time + hold

ExitIdx(prices, entry_idx, hold) ==
    FirstAtOrAfter(prices, ExitTime(prices[entry_idx].timestamp, hold))

RawReturn(signal_type, entry_price, exit_price) ==
    IF signal_type = "BUY_TLT"
        THEN RDiv(RSub(exit_price, entry_price), entry_price)
    ELSE IF signal_type = "SELL_TLT"
        THEN RDiv(RSub(entry_price, exit_price), entry_price)
    ELSE Num(0)

\* Mutant of NetReturn: the cost is charged on entry and again on exit.
NetReturnCostTwice(raw_return, cost_pct) ==
    RSub(RSub(raw_return, RDiv(cost_pct, Num(100))), RDiv(cost_pct, Num(100)))

NetReturn(raw_return, cost_pct) == RSub(raw_return, RDiv(cost_pct, Num(100)))

\* The dict appended to `results` for a signal with both anchors.
Trade(prices, signal, entry_idx, exit_idx, cost_pct) ==
    LET entry_price == Num(prices[entry_idx].value)
        exit_price == Num(prices[exit_idx].value)
        entry_time == prices[entry_idx].timestamp
        actual_exit_time == prices[exit_idx].timestamp
        raw_return == RawReturn(signal.signal_type, entry_price, exit_price)
        net_return == NetReturn(raw_return, cost_pct)
    IN  [signal_timestamp |-> signal.timestamp,
         entry_timestamp |-> entry_time,
         exit_timestamp |-> actual_exit_time,
         signal_type |-> signal.signal_type,
         signal_strength |-> signal.signal_strength,
         sentiment_input |-> signal.avg_sentiment,
         entry_price |-> entry_price,
         exit_price |-> exit_price,
         return_pct |-> RMul(net_return, Num(100)),
         pnl |-> RMul(net_return, entry_price),
         hold_hours |-> actual_exit_time - entry_time]

\* Mutant of BacktestIteration: a signal without an exit anchor is closed at
\* the last row of the frame instead of being skipped.
BacktestIterationExitAtEnd(res, prices, signal, hold, cost_pct) ==
    LET entry_idx == EntryIdx(prices, signal)
    IN  IF entry_idx = 0 THEN res
        ELSE LET exit_idx == ExitIdx(prices, entry_idx, hold)
             IN  Append(res, Trade(prices, signal, entry_idx,
                                   IF exit_idx = 0 THEN Len(prices) ELSE exit_idx,
                                   cost_pct))

\* Mutant of BacktestIteration: a signal that arrives while the position of
\* the last Trade is open is skipped.
BacktestIterationOnePosition(res, prices, signal, hold, cost_pct) ==
    LET entry_idx == EntryIdx(prices, signal)
    IN  IF entry_idx = 0 THEN res
        ELSE LET exit_idx == ExitIdx(prices, entry_idx, hold)
             IN  IF exit_idx = 0 THEN res
                 ELSE IF res # <<>> /\ res[Len(res)].exit_timestamp > signal.timestamp
                      THEN res
                 ELSE Append(res, Trade(prices, signal, entry_idx, exit_idx, cost_pct))

\* Mutant of BacktestIteration: a signal that is neither a BUY nor a SELL is
\* skipped.
BacktestIterationSkipNeutral(res, prices, signal, hold, cost_pct) ==
    LET entry_idx == EntryIdx(prices, signal)
    IN  IF entry_idx = 0 \/ signal.signal_type \notin {"BUY_TLT", "SELL_TLT"} THEN res
        ELSE LET exit_idx == ExitIdx(prices, entry_idx, hold)
             IN  IF exit_idx = 0 THEN res
                 ELSE Append(res, Trade(prices, signal, entry_idx, exit_idx, cost_pct))

\* One iteration of `for idx, signal in signals_df.iterrows()`.
BacktestIteration(res, prices, signal, hold, cost_pct) ==
    LET entry_idx == EntryIdx(prices, signal)
    IN  IF entry_idx = 0 THEN res
        ELSE LET exit_idx == ExitIdx(prices, entry_idx, hold)
             IN  IF exit_idx = 0 THEN res
                 ELSE Append(res, Trade(prices, signal, entry_idx, exit_idx, cost_pct))

InitBacktest ==
    /\ pc = "backtest_loop"
    /\ prices_df \in PriceSeries(MaxPrices)
    /\ holding_hours \in HoldingHours
    /\ transaction_cost_pct \in TransactionCosts
    /\ signals_df = <<>>
    /\ results = <<>>
    /\ metrics = [empty |-> TRUE]
    /\ IdleSg /\ IdleEs /\ IdleCa

\* The loop body runs on the next row of signals_df.
BacktestSignal ==
    /\ pc = "backtest_loop"
    /\ Len(signals_df) < MaxSignals
    /\ \E signal \in SignalRows :
        /\ signals_df' = Append(signals_df, signal)
        /\ results' = BacktestIteration(results, prices_df, signal, holding_hours,
                                        transaction_cost_pct)
    /\ UNCHANGED <<pc, prices_df, holding_hours, transaction_cost_pct, metrics>>
    /\ UNCHANGED <<sgVars, esVars, caVars>>

----------------------------------------------------------------------------
(* Backtester.calculate_performance_metrics (signals.py 284-337)           *)

IsWinner(trade) == RGt(trade.return_pct, Num(0))
IsLoser(trade) == RLt(trade.return_pct, Num(0))
HasProfit(trade) == RGt(trade.pnl, Num(0))
HasLoss(trade) == RLt(trade.pnl, Num(0))

GrossProfit(trades) == RSum(Col(SelectSeq(trades, HasProfit), "pnl"))
GrossLoss(trades) == RAbs(RSum(Col(SelectSeq(trades, HasLoss), "pnl")))

\* Mutant of ProfitFactor: no gross loss reports 0 instead of +inf.
ProfitFactorZeroDefault(gross_profit, gross_loss) ==
    IF RNe(gross_loss, Num(0)) THEN RDiv(gross_profit, gross_loss) ELSE Num(0)

ProfitFactor(gross_profit, gross_loss) ==
    IF RNe(gross_loss, Num(0)) THEN RDiv(gross_profit, gross_loss) ELSE Inf

\* avg_return / returns_std * sqrt(252) if returns_std != 0 else 0, held as
\* its sign and its square; returns_std is zero or NaN as its square is.
SharpeRatio(avg_return, returns_variance) ==
    IF RNe(returns_variance, Num(0))
    THEN [sign |-> IF IsNaN(returns_variance) THEN 0 ELSE Sign(avg_return.n),
          square |-> RMul(RDiv(RMul(avg_return, avg_return), returns_variance), Num(252))]
    ELSE [sign |-> 0, square |-> Num(0)]

\* a < b for two finite values, by comparing their integer parts and then
\* their remainders, so that no product of two large integers is formed.
RECURSIVE FracLess(_, _, _, _)
FracLess(an, ad, bn, bd) ==
    IF an \div ad # bn \div bd THEN an \div ad < bn \div bd
    ELSE IF bn % bd = 0 THEN FALSE
    ELSE IF an % ad = 0 THEN TRUE
    ELSE FracLess(bd, bn % bd, ad, an % ad)
RLess(a, b) == FracLess(a.n, a.d, b.n, b.d)

\* The factor 1 + return_pct / 100 of trade k, and the product of the
\* factors of trades a + 1 .. b: cumulative_returns[b] / cumulative_returns[a].
GrowthFactor(returns, k) == RAdd(Num(1), RDiv(returns[k], Num(100)))
RECURSIVE Growth(_, _, _)
Growth(returns, a, b) ==
    IF b <= a THEN Num(1)
    ELSE RMul(Growth(returns, a, b - 1), GrowthFactor(returns, b))

\* The sign of cumulative_returns[i] = (1 + return_pct / 100).cumprod()[i].
RECURSIVE CumulativeSign(_, _)
CumulativeSign(returns, i) ==
    IF i = 0 THEN 1
    ELSE CumulativeSign(returns, i - 1) * Sign(GrowthFactor(returns, i).n)

\* cumulative_returns[a] < cumulative_returns[b], decided from the sign of
\* the earlier of the two and the growth between them: the values are exact
\* fractions, so this is the comparison of the two products.
CumulativeLess(returns, a, b) ==
    LET lo == IF a < b THEN a ELSE b
        hi == IF a < b THEN b ELSE a
        growth == Growth(returns, lo, hi)
        rose == CumulativeSign(returns, lo) * Sign(growth.n - growth.d) > 0
        fell == CumulativeSign(returns, lo) * Sign(growth.n - growth.d) < 0
    IN  IF a < b THEN rose ELSE fell

\* The trade at which cumulative_returns.expanding().max() is reached for
\* the rows up to i: the peak moves to row i when the curve is above the
\* peak of the rows before it.
RECURSIVE RunningMaxIdx(_, _)
RunningMaxIdx(returns, i) ==
    IF i = 1 THEN 1
    ELSE LET j == RunningMaxIdx(returns, i - 1)
         IN  IF CumulativeLess(returns, j, i) THEN i ELSE j

\* (cumulative_returns - running_max) / running_max * 100 at row i: with
\* the peak at trade j it is (Growth(j, i) - 1) * 100, and 0 / 0 when the
\* peak is 0.
Drawdown(returns) ==
    [i \in 1..Len(returns) |->
        LET j == RunningMaxIdx(returns, i)
        IN  IF CumulativeSign(returns, j) = 0 THEN NaN
            ELSE RMul(RSub(Growth(returns, j, i), Num(1)), Num(100))]

\* The drawdown series in one pass over the trades: the running peak is
\* carried as its sign and the ratio cumulative_returns / running_max, which
\* the factor of the next trade multiplies; a row above the peak becomes the
\* peak, and a peak of 0 stays 0 with every later row 0 / 0.
DrawdownStep(st, factor) ==
    IF st.peak_sign = 0 THEN [st EXCEPT !.drawdown = Append(@, NaN)]
    ELSE LET ratio == RMul(st.ratio, factor)
             above == IF st.peak_sign > 0 THEN ratio.n > ratio.d
                      ELSE ratio.n < ratio.d
         IN  IF above
             THEN [peak_sign |-> st.peak_sign * Sign(ratio.n), ratio |-> Num(1),
                   drawdown |-> Append(st.drawdown,
                                       IF ratio.n = 0 THEN NaN ELSE Num(0))]
             ELSE [peak_sign |-> st.peak_sign, ratio |-> ratio,
                   drawdown |-> Append(st.drawdown,
                                       RMul(RSub(ratio, Num(1)), Num(100)))]
RECURSIVE DrawdownScan(_, _)
DrawdownScan(returns, i) ==
    IF i = 1
    THEN LET factor == GrowthFactor(returns, 1)
         IN  [peak_sign |-> Sign(factor.n), ratio |-> Num(1),
              drawdown |-> <<IF factor.n = 0 THEN NaN ELSE Num(0)>>]
    ELSE DrawdownStep(DrawdownScan(returns, i - 1), GrowthFactor(returns, i))

\* Series.min(): missing values are skipped, and the result is NaN when
\* every value is missing.
SeriesMin(values) ==
    LET present == {v \in {values[i] : i \in 1..Len(values)} : ~IsNaN(v)}
    IN  IF present = {} THEN NaN
        ELSE CHOOSE v \in present : \A w \in present : ~RLess(w, v)

PerformanceMetrics(trades) ==
    IF trades = <<>> THEN [empty |-> TRUE]
    ELSE LET total_trades == Len(trades)
             winning_trades == Len(SelectSeq(trades, IsWinner))
             losing_trades == Len(SelectSeq(trades, IsLoser))
             returns == Col(trades, "return_pct")
             avg_return == RMean(returns)
         IN  [empty |-> FALSE,
              sharpe_ratio |-> SharpeRatio(avg_return, RVariance(returns)),
              max_drawdown_pct |-> SeriesMin(DrawdownScan(returns, total_trades).drawdown),
              total_trades |-> total_trades,
              winning_trades |-> winning_trades,
              losing_trades |-> losing_trades,
              win_rate_pct |-> RMul(RDiv(Num(winning_trades), Num(total_trades)), Num(100)),
              avg_return_pct |-> avg_return,
              total_pnl |-> RSum(Col(trades, "pnl")),
              profit_factor |-> ProfitFactor(GrossProfit(trades), GrossLoss(trades))]

\* The metrics of a results frame: the one backtest_signals returns when
\* signals_df is exhausted (results_df = pd.DataFrame(results), handed on by
\* run_full_backtest, signals.py 382-392), or one given to the method.
CalculatePerformanceMetrics ==
    /\ pc \in {"backtest_loop", "backtested"}
    /\ pc' = "backtest_done"
    /\ metrics' = PerformanceMetrics(results)
    /\ UNCHANGED <<prices_df, holding_hours, transaction_cost_pct, signals_df, results>>
    /\ UNCHANGED <<sgVars, esVars, caVars>>

NextBacktest == BacktestSignal \/ CalculatePerformanceMetrics

SpecBacktest == InitBacktest /\ [][NextBacktest]_vars

\* backtest_signals on its own: the loop over signals_df and the results it
\* appends, without the metrics run_full_backtest computes from them.
NextBacktestSignals == BacktestSignal

SpecBacktestSignals == InitBacktest /\ [][NextBacktestSignals]_vars

----------------------------------------------------------------------------
(* Claims about the Backtester, checked under SpecBacktest and, where they  *)
(* are about backtest_signals alone, under SpecBacktestSignals.            *)

\* C1: every Trade in the output of backtest_signals has
\* exit_timestamp >= entry_timestamp >= signal_timestamp and hold_hours >= 0,
\* for every signal list, price series and holding_hours value.
C1_TradeTimestampsOrdered ==
    \A i \in 1..Len(results) :
        /\ results[i].exit_timestamp >= results[i].entry_timestamp
        /\ results[i].entry_timestamp >= results[i].signal_timestamp
        /\ results[i].hold_hours >= 0

\* The anchors of a signal, in the words of the claims: an observation at or
\* after the signal, and one at or after the entry plus the holding period.
ObsAtOrAfter(t) == {k \in 1..Len(prices_df) : prices_df[k].timestamp >= t}
EarliestIn(S) == CHOOSE k \in S : \A j \in S : /\ prices_df[k].timestamp <= prices_df[j].timestamp
                                               /\ (prices_df[k].timestamp = prices_df[j].timestamp => k <= j)
HasEntryAnchor(signal) == ObsAtOrAfter(signal.timestamp) # {}
EntryAnchorTime(signal) == prices_df[EarliestIn(ObsAtOrAfter(signal.timestamp))].timestamp
HasExitAnchor(signal) ==
    /\ HasEntryAnchor(signal)
    /\ ObsAtOrAfter(EntryAnchorTime(signal) + holding_hours) # {}

\* C2: a signal with no observation at or after it, or with no observation at
\* or after its entry plus holding_hours, produces no Trade; the other signals
\* of the batch are processed and their Trades returned, in order.
C2_AbandonedSignalsSkipped ==
    LET kept == SelectSeq(signals_df, HasExitAnchor)
    IN  /\ Len(results) = Len(kept)
        /\ \A i \in 1..Len(results) :
              /\ results[i].signal_timestamp = kept[i].timestamp
              /\ results[i].signal_type = kept[i].signal_type

\* A batch whose first signal has an entry but no exit anchor and whose
\* second signal is traded.
C2_Witness ==
    /\ Len(signals_df) = 2
    /\ HasEntryAnchor(signals_df[1]) /\ ~HasExitAnchor(signals_df[1])
    /\ HasExitAnchor(signals_df[2])
    /\ Len(results) = 1
    /\ holding_hours > 0

\* C3: the entry of every Trade is the first, earliest observation at or after
\* the signal, the exit is the first, earliest observation at or after the
\* entry plus holding_hours, and the two prices are those observations' values.
C3_AnchorsAreFirstObservations ==
    \A i \in 1..Len(results) :
        LET trade == results[i]
            entries == ObsAtOrAfter(trade.signal_timestamp)
            exits == ObsAtOrAfter(trade.entry_timestamp + holding_hours)
        IN  /\ entries # {} /\ exits # {}
            /\ trade.entry_timestamp = prices_df[EarliestIn(entries)].timestamp
            /\ trade.entry_price = Num(prices_df[EarliestIn(entries)].value)
            /\ trade.exit_timestamp = prices_df[EarliestIn(exits)].timestamp
            /\ trade.exit_price = Num(prices_df[EarliestIn(exits)].value)

\* A Trade entered at an observation after its signal and closed at a later
\* observation, with a different price.
C3_Witness ==
    /\ Len(results) >= 1
    /\ holding_hours > 0
    /\ results[1].entry_timestamp > results[1].signal_timestamp
    /\ results[1].exit_timestamp > results[1].entry_timestamp
    /\ results[1].exit_price # results[1].entry_price

\* C4: with e the entry price, x the exit price and c = transaction_cost_pct,
\* return_pct = 100 * (x - e) / e - c for a BUY and 100 * (e - x) / e - c for a
\* SELL (the cost subtracted once), and pnl = return_pct / 100 * e.
C4_ReturnFormulas ==
    \A i \in 1..Len(results) :
        LET trade == results[i]
            e == trade.entry_price.n
            x == trade.exit_price.n
            c == transaction_cost_pct
            move == IF trade.signal_type = "BUY_TLT" THEN x - e ELSE e - x
        IN  trade.signal_type \in {"BUY_TLT", "SELL_TLT"} =>
              /\ trade.return_pct.d > 0 /\ trade.pnl.d > 0
              /\ trade.return_pct.n * (e * c.d) =
                    trade.return_pct.d * (100 * move * c.d - c.n * e)
              /\ trade.pnl.n * (100 * c.d) =
                    trade.pnl.d * (100 * move * c.d - c.n * e)
              /\ trade.pnl.n * trade.return_pct.d * 100 =
                    trade.return_pct.n * e * trade.pnl.d

\* A BUY and a SELL trade with a price move and a transaction cost.
C4_Witness ==
    /\ Len(results) = 2
    /\ transaction_cost_pct # Num(0)
    /\ results[1].signal_type = "BUY_TLT" /\ results[2].signal_type = "SELL_TLT"
    /\ results[1].entry_price # results[1].exit_price
    /\ results[2].entry_price # results[2].exit_price

\* C6 as stated: profit_factor is +inf if and only if there is no losing
\* trade and at least one winning trade.
C6_InfIffNoLoserAndAWinner ==
    (pc = "backtest_done" /\ ~metrics.empty) =>
        (metrics.profit_factor = Inf
            <=> (metrics.losing_trades = 0 /\ metrics.winning_trades >= 1))

\* C6 as amended: profit_factor is +inf if and only if no trade has a
\* negative pnl (the gross loss is zero), whether or not a trade wins.
C6_InfIffNoGrossLoss ==
    (pc = "backtest_done" /\ ~metrics.empty) =>
        (metrics.profit_factor = Inf
            <=> \A i \in 1..Len(results) : ~(results[i].pnl.n < 0 /\ results[i].pnl.d > 0))

\* Metrics of trades none of which wins or loses, and an infinite factor.
C6_Witness ==
    /\ pc = "backtest_done" /\ ~metrics.empty
    /\ metrics.winning_trades = 0 /\ metrics.losing_trades = 0
    /\ metrics.profit_factor = Inf

\* The timestamps of the observations of the price series.
ObsTimes == {prices_df[k].timestamp : k \in 1..Len(prices_df)}

\* C23: every signal taken from signals_df either adds exactly one Trade, at
\* the end of the results, whose entry and exit are observations, or, having
\* no entry or no exit anchor, adds none; the Trades never outnumber the
\* signals; and the outcome of a signal does not depend on the signals before
\* it: an equal signal earlier in the batch gave the same Trade.
C23_SignalPaths ==
    [][signals_df' # signals_df =>
          LET signal == signals_df'[Len(signals_df')]
          IN  /\ Len(signals_df') = Len(signals_df) + 1
              /\ Len(results') <= Len(signals_df')
              /\ IF HasExitAnchor(signal)
                 THEN /\ Len(results') = Len(results) + 1
                      /\ SubSeq(results', 1, Len(results)) = results
                      /\ LET trade == results'[Len(results')]
                         IN  /\ trade.signal_timestamp = signal.timestamp
                             /\ trade.signal_type = signal.signal_type
                             /\ trade.entry_timestamp \in ObsTimes
                             /\ trade.exit_timestamp \in ObsTimes
                             /\ \A i \in 1..Len(signals_df) :
                                   signals_df[i] = signal =>
                                       \E j \in 1..Len(results) : results[j] = trade
                 ELSE results' = results]_vars

\* A signal was traded, the same signal came again while its position was
\* open and was traded again: the results hold the two Trades.
C23_Witness ==
    /\ pc = "backtest_loop"
    /\ Len(signals_df) = 2 /\ signals_df[1] = signals_df[2]
    /\ Len(results) = 2 /\ results[1] = results[2]
    /\ results[1].exit_timestamp > results[1].signal_timestamp
    /\ holding_hours > 0

\* The decline of the cumulative curve from its running peak at trade i,
\* in percent, and whether the curve is below its peak there.
Decline(i) == Drawdown(Col(results, "return_pct"))[i]
BelowPeak(i) ==
    LET returns == Col(results, "return_pct")
    IN  CumulativeLess(returns, i, RunningMaxIdx(returns, i))

\* C27: max_drawdown_pct is a number that is never positive; it is the
\* least of 100 * (C_i - P_i) / P_i over the trades; and it is 0 exactly when
\* the curve never falls below its running peak.
C27_DrawdownNeverPositive ==
    (pc = "backtest_done" /\ ~metrics.empty) =>
        /\ ~IsNaN(metrics.max_drawdown_pct)
        /\ metrics.max_drawdown_pct.d > 0 /\ metrics.max_drawdown_pct.n <= 0
        /\ \E i \in 1..Len(results) : metrics.max_drawdown_pct = Decline(i)
        /\ \A i \in 1..Len(results) :
              ~IsNaN(Decline(i)) /\ ~RLess(Decline(i), metrics.max_drawdown_pct)
        /\ (metrics.max_drawdown_pct = Num(0))
              <=> (\A i \in 1..Len(results) : ~BelowPeak(i))

\* C28: a trade counts as a winner exactly when its pnl is a profit and as a
\* loser exactly when its pnl is a loss, whatever its entry value: the two
\* counts are those of the trades with a positive and with a negative pnl,
\* and together they do not exceed the number of trades.
C28_WinLossConsistent ==
    (pc = "backtest_done" /\ ~metrics.empty) =>
        /\ \A i \in 1..Len(results) :
              /\ IsWinner(results[i]) <=> results[i].pnl.n > 0
              /\ IsLoser(results[i]) <=> results[i].pnl.n < 0
        /\ metrics.winning_trades =
              Cardinality({i \in 1..Len(results) : results[i].pnl.n > 0})
        /\ metrics.losing_trades =
              Cardinality({i \in 1..Len(results) : results[i].pnl.n < 0})
        /\ metrics.winning_trades + metrics.losing_trades <= metrics.total_trades

\* C29: a signal that is neither a BUY nor a SELL and has both anchors is
\* not skipped: it has its Trade among the results, in the place its
\* position among the signals with both anchors gives it, with
\* return_pct = -transaction_cost_pct and
\* pnl = -(transaction_cost_pct / 100) * entry_price.
C29_NeutralSignalTraded ==
    LET kept == SelectSeq(signals_df, HasExitAnchor)
    IN  \A i \in 1..Len(kept) :
            kept[i].signal_type \notin {"BUY_TLT", "SELL_TLT"} =>
                /\ i <= Len(results)
                /\ results[i].signal_type = kept[i].signal_type
                /\ results[i].signal_timestamp = kept[i].timestamp
                /\ results[i].return_pct = RNeg(transaction_cost_pct)
                /\ results[i].pnl =
                      RNeg(RMul(RDiv(transaction_cost_pct, Num(100)), results[i].entry_price))

\* A NEUTRAL signal was traded across a price move with a transaction cost.
C29_Witness ==
    /\ pc = "backtest_loop"
    /\ transaction_cost_pct # Num(0)
    /\ \E i \in 1..Len(results) :
          /\ results[i].signal_type = "NEUTRAL"
          /\ results[i].entry_price # results[i].exit_price
          /\ results[i].return_pct = RNeg(transaction_cost_pct)

\* C14: a negative holding_hours is surfaced to the caller: backtest_signals
\* returns no Trade computed with it.
C14_NegativeHoldingRejected ==
    holding_hours < 0 => results = <<>>

----------------------------------------------------------------------------
(* Backtester.calculate_performance_metrics on any trade set               *)
(* (signals.py 284-337)                                                    *)

\* The rows of a backtest_df: the columns the metrics read, with the pnl
\* backtest_signals gives a trade, return_pct / 100 * entry_price.  The
\* entry value is a price or, for a rate instrument, a yield, which may be
\* negative.
TradeEntryPrices == {-1, 1, 2}
TradeReturns == {-1, 0, 2}
TradeRows ==
    {[entry_price |-> Num(price), return_pct |-> Num(ret), pnl |-> Norm(ret * price, 100)] :
        price \in TradeEntryPrices, ret \in TradeReturns}

RECURSIVE TradeSets(_)
TradeSets(n) ==
    IF n = 0 THEN {<<>>}
    ELSE LET shorter == TradeSets(n - 1)
         IN  shorter \cup {Append(t, row) : t \in {x \in shorter : Len(x) = n - 1},
                                            row \in TradeRows}

InitMetrics ==
    /\ pc = "backtested"
    /\ results \in TradeSets(MaxTrades)
    /\ metrics = [empty |-> TRUE]
    /\ prices_df = <<>> /\ holding_hours = 0 /\ transaction_cost_pct = Num(0)
    /\ signals_df = <<>>
    /\ IdleSg /\ IdleEs /\ IdleCa

NextMetrics == CalculatePerformanceMetrics

SpecMetrics == InitMetrics /\ [][NextMetrics]_vars

----------------------------------------------------------------------------
(* Claims about the metrics, checked under SpecMetrics.                    *)

\* The gains of the winners and the losses of the losers, in percent.
WinnersGain == RSum(Col(SelectSeq(results, LAMBDA t : RGt(t.return_pct, Num(0))), "return_pct"))
LosersLoss == RAbs(RSum(Col(SelectSeq(results, LAMBDA t : RLt(t.return_pct, Num(0))), "return_pct")))

\* C15: the win rate is 100 times the share of trades with a positive
\* return, and the profit factor is the winners' gains over the losers'
\* losses, whatever the entry prices of the trades.
C15_WinRateAndProfitFactor ==
    (pc = "backtest_done" /\ ~metrics.empty) =>
        /\ metrics.win_rate_pct =
              Norm(100 * Cardinality({i \in 1..Len(results) : results[i].return_pct.n > 0}),
                   Len(results))
        /\ LosersLoss # Num(0) =>
              metrics.profit_factor = RDiv(WinnersGain, LosersLoss)

\* The returns of the trades are all the same.
NoDispersion == \A i \in 1..Len(results) : results[i].return_pct = results[1].return_pct

\* C17: the Sharpe ratio is never NaN, and it is 0 when the returns have no
\* dispersion.
C17_SharpeDefined ==
    (pc = "backtest_done" /\ ~metrics.empty) =>
        /\ ~IsNaN(metrics.sharpe_ratio.square)
        /\ NoDispersion => metrics.sharpe_ratio.square = Num(0)

----------------------------------------------------------------------------
(* SignalGenerator.generate_sentiment_signals (signals.py 29-118)          *)

\* Hours at which sentiment_aggregates may hold a row, and its values.
SentimentHours == {0, 1, 4}
SentimentValues == {Norm(-1, 2), Norm(-3, 10), Norm(3, 10), Norm(1, 2)}
SentimentThresholds == {Norm(3, 10), Norm(1, 2)}
AggregationHours == {1, 2}

\* A BOOLEAN column; after a resample it may also hold "NaN".
Flags == {"True", "False"}

AggregateRows ==
    [timestamp : SentimentHours, avg_sentiment : SentimentValues, sentiment_count : {1},
     has_fomc : Flags, has_cpi : Flags, has_nfp : Flags]

\* What the query returns: rows ordered by hour_timestamp, one per hour.
AggregateSeries(n) == OrderedSeqs(AggregateRows, n, 1)

\* The rows of a sequence whose timestamp lies in [lo, hi).
RowsIn(rows, lo, hi) ==
    SelectSeq(rows, LAMBDA r : lo <= r.timestamp /\ r.timestamp < hi)

\* 'max' of a flag over a bucket; NaN for a bucket without rows.
FlagMax(rows, flag) ==
    IF rows = <<>> THEN "NaN"
    ELSE IF \E i \in 1..Len(rows) : rows[i][flag] = "True" THEN "True" ELSE "False"

\* df.resample(f'{h}H').agg(mean, sum, max, max, max): one row for every
\* bucket of h hours from the first row's to the last row's, empty or not.
Resample(rows, h) ==
    IF rows = <<>> THEN <<>>
    ELSE LET first == (rows[1].timestamp \div h) * h
             last == (rows[Len(rows)].timestamp \div h) * h
         IN  [k \in 1..((last - first) \div h + 1) |->
                LET lo == first + (k - 1) * h
                    members == RowsIn(rows, lo, lo + h)
                IN  [timestamp |-> lo,
                     avg_sentiment |-> RDiv(RSum(Col(members, "avg_sentiment")),
                                            Num(Len(members))),
                     sentiment_count |-> Len(members),
                     has_fomc |-> FlagMax(members, "has_fomc"),
                     has_cpi |-> FlagMax(members, "has_cpi"),
                     has_nfp |-> FlagMax(members, "has_nfp")]]

\* df['has_fomc'] | df['has_cpi'] | df['has_nfp'], where `|` takes NaN as False.
MajorEvent(row) ==
    row.has_fomc = "True" \/ row.has_cpi = "True" \/ row.has_nfp = "True"

\* Mutant of MaskBuy and of MaskSell: the comparison is not strict.
MaskBuyNotStrict(row, threshold) ==
    RGt(row.avg_sentiment, threshold) \/ REq(row.avg_sentiment, threshold)

MaskBuy(row, threshold) == RGt(row.avg_sentiment, threshold)
MaskSell(row, threshold) == RLt(row.avg_sentiment, RNeg(threshold))

\* Lines 94-105: NEUTRAL and 0.0, then the BUY rows, then the SELL rows.
BaseSignal(row, threshold) ==
    LET s0 == [signal_type |-> "NEUTRAL", signal_strength |-> Num(0)]
        s1 == IF MaskBuy(row, threshold)
                THEN [signal_type |-> "BUY_TLT", signal_strength |-> row.avg_sentiment]
                ELSE s0
    IN  IF MaskSell(row, threshold)
            THEN [signal_type |-> "SELL_TLT", signal_strength |-> RAbs(row.avg_sentiment)]
            ELSE s1

\* Mutant of Boost: the strength is multiplied once per flag that is set.
BoostPerFlag(row, strength) ==
    LET f1 == IF row.has_fomc = "True" THEN RMul(strength, Norm(3, 2)) ELSE strength
        f2 == IF row.has_cpi = "True" THEN RMul(f1, Norm(3, 2)) ELSE f1
    IN  IF row.has_nfp = "True" THEN RMul(f2, Norm(3, 2)) ELSE f2

\* Line 108: signal_strength *= 1.5 on the rows of a major event.
Boost(row, strength) ==
    IF MajorEvent(row) THEN RMul(strength, Norm(3, 2)) ELSE strength

\* A row of df after lines 94-108.
WithSignal(row, threshold) ==
    LET base == BaseSignal(row, threshold)
    IN  [timestamp |-> row.timestamp,
         avg_sentiment |-> row.avg_sentiment,
         sentiment_count |-> row.sentiment_count,
         has_fomc |-> row.has_fomc, has_cpi |-> row.has_cpi, has_nfp |-> row.has_nfp,
         signal_type |-> base.signal_type,
         signal_strength |-> Boost(row, base.signal_strength)]

\* Lines 94-111: the rows of df with their signal, NEUTRAL rows dropped.
SentimentSignals(frame, threshold) ==
    SelectSeq([i \in 1..Len(frame) |-> WithSignal(frame[i], threshold)],
              LAMBDA r : r.signal_type # "NEUTRAL")

InitSignals ==
    /\ pc = "signals_queried"
    /\ df \in AggregateSeries(MaxSentimentRows)
    /\ aggregation_hours \in AggregationHours
    /\ sentiment_threshold \in SentimentThresholds
    /\ signals_out = <<>>
    /\ IdleBt /\ IdleEs /\ IdleCa

\* Lines 70-72: the query returned nothing.
NoSentimentData ==
    /\ pc = "signals_queried"
    /\ df = <<>>
    /\ pc' = "signals_done"
    /\ UNCHANGED <<sgVars, btVars, esVars, caVars>>

\* Lines 81-91: the rows are aggregated over aggregation_hours.
AggregateSentiment ==
    /\ pc = "signals_queried"
    /\ df # <<>>
    /\ pc' = "signals_aggregated"
    /\ df' = IF aggregation_hours > 1 THEN Resample(df, aggregation_hours) ELSE df
    /\ UNCHANGED <<aggregation_hours, sentiment_threshold, signals_out>>
    /\ UNCHANGED <<btVars, esVars, caVars>>

\* Lines 93-114.
GenerateSignals ==
    /\ pc = "signals_aggregated"
    /\ pc' = "signals_done"
    /\ signals_out' = SentimentSignals(df, sentiment_threshold)
    /\ UNCHANGED <<df, aggregation_hours, sentiment_threshold>>
    /\ UNCHANGED <<btVars, esVars, caVars>>

NextSignals == NoSentimentData \/ AggregateSentiment \/ GenerateSignals

SpecSignals == InitSignals /\ [][NextSignals]_vars

----------------------------------------------------------------------------
(* Claims about the SignalGenerator, checked under SpecSignals.            *)

\* A bucket's sentiment against the threshold, in whole numbers.
AboveThreshold(b) ==
    /\ b.avg_sentiment.d > 0
    /\ b.avg_sentiment.n * sentiment_threshold.d > sentiment_threshold.n * b.avg_sentiment.d
BelowMinusThreshold(b) ==
    /\ b.avg_sentiment.d > 0
    /\ b.avg_sentiment.n * sentiment_threshold.d < -sentiment_threshold.n * b.avg_sentiment.d
Flagged(b) == "True" \in {b.has_fomc, b.has_cpi, b.has_nfp}
EmittedFor(b) == {j \in 1..Len(signals_out) : signals_out[j].timestamp = b.timestamp}

----------------------------------------------------------------------------
(* EventStudyAnalyzer.measure_market_impact (event_studies.py 96-175)      *)

MarketTimes == 0..4
MarketValues == {1, 2}
MarketRows == [timestamp : MarketTimes, value : MarketValues]

\* The rows of market_data for the instrument, ORDER BY timestamp.
MarketSeries(n) == OrderedSeqs(MarketRows, n, 0)

EventTimes == 0..4
WindowHours == {1, 2}

\* The query of lines 118-127: the rows with start_time <= timestamp <= end_time.
WindowRows(market, event_time, window) ==
    SelectSeq(market, LAMBDA r : /\ r.timestamp >= event_time - window
                                 /\ r.timestamp <= event_time + window)

\* Mutant of EventIdx: the last row with the smallest time difference.
EventIdxLastOfTies(rows, event_time) ==
    LET diff(k) == Abs(rows[k].timestamp - event_time)
        k0 == CHOOSE k \in 1..Len(rows) :
                /\ \A j \in 1..Len(rows) : diff(k) <= diff(j)
                /\ \A j \in (k + 1)..Len(rows) : diff(j) > diff(k)
    IN  k0 - 1

\* df["time_diff"].idxmin(): the first row with the smallest time difference,
\* as a 0-based label.
EventIdx(rows, event_time) ==
    LET diff(k) == Abs(rows[k].timestamp - event_time)
        k0 == CHOOSE k \in 1..Len(rows) :
                /\ \A j \in 1..Len(rows) : diff(k) <= diff(j)
                /\ \A j \in 1..(k - 1) : diff(j) > diff(k)
    IN  k0 - 1

\* Mutant of AtBoundary: only the first row is tested.
AtBoundaryFirstOnly(event_idx, n) == event_idx = 0

\* Line 143.
AtBoundary(event_idx, n) == event_idx = 0 \/ event_idx = n - 1

ValuesOf(rows) == [i \in 1..Len(rows) |-> Num(rows[i].value)]

\* The dict measure_market_impact returns.  The volatilities are standard
\* deviations; the model holds their squares (pre_variance, post_variance) and
\* the square of volatility_ratio (variance_ratio).
MeasureImpact(market, event_time, window) ==
    LET rows == WindowRows(market, event_time, window)
    IN  IF Len(rows) < 4 THEN [empty |-> TRUE]
        ELSE LET event_idx == EventIdx(rows, event_time)
             IN  IF AtBoundary(event_idx, Len(rows)) THEN [empty |-> TRUE]
                 ELSE LET before == ValuesOf(SubSeq(rows, 1, event_idx))
                          after == ValuesOf(SubSeq(rows, event_idx + 2, Len(rows)))
                          pre_event == RMean(before)
                          post_event == RMean(after)
                          abs_change == RSub(post_event, pre_event)
                          pre_variance == RVariance(before)
                          post_variance == RVariance(after)
                      IN  [empty |-> FALSE,
                           pre_event_value |-> pre_event,
                           event_value |-> Num(rows[event_idx + 1].value),
                           post_event_value |-> post_event,
                           absolute_change |-> abs_change,
                           percent_change |->
                               IF RNe(pre_event, Num(0))
                                   THEN RMul(RDiv(abs_change, pre_event), Num(100))
                                   ELSE Num(0),
                           pre_variance |-> pre_variance,
                           post_variance |-> post_variance,
                           variance_ratio |->
                               IF RNe(pre_variance, Num(0))
                                   THEN RDiv(post_variance, pre_variance)
                                   ELSE Num(1)]

InitImpact ==
    /\ pc = "impact_ready"
    /\ market_data \in MarketSeries(MaxObs)
    /\ window_hours = 0 /\ event_timestamp = 0 /\ impact = [empty |-> TRUE]
    /\ events_df = <<>> /\ study_results = <<>> /\ study_report = [empty |-> TRUE]
    /\ IdleBt /\ IdleSg /\ IdleCa

\* One call of measure_market_impact.
MeasureMarketImpact ==
    /\ pc = "impact_ready"
    /\ pc' = "impact_returned"
    /\ \E t \in EventTimes, w \in WindowHours :
        /\ event_timestamp' = t
        /\ window_hours' = w
        /\ impact' = MeasureImpact(market_data, t, w)
    /\ UNCHANGED <<market_data, events_df, study_results, study_report>>
    /\ UNCHANGED <<btVars, sgVars, caVars>>

NextImpact == MeasureMarketImpact

SpecImpact == InitImpact /\ [][NextImpact]_vars

----------------------------------------------------------------------------
(* Claims about measure_market_impact, checked under SpecImpact.           *)

\* The observations of the window, and the one closest to the event (the
\* earlier one of two at the same distance), as positions in market_data.
InWindow == {k \in 1..Len(market_data) :
                /\ market_data[k].timestamp >= event_timestamp - window_hours
                /\ market_data[k].timestamp <= event_timestamp + window_hours}
Distance(k) == IF market_data[k].timestamp >= event_timestamp
                 THEN market_data[k].timestamp - event_timestamp
                 ELSE event_timestamp - market_data[k].timestamp
Closest == CHOOSE k \in InWindow :
                \A j \in InWindow : Distance(k) < Distance(j) \/ (Distance(k) = Distance(j) /\ k <= j)
ClosestAtEdge == (\A j \in InWindow : Closest <= j) \/ (\A i \in InWindow : Closest >= i)

\* C9: no measurement is returned when fewer than 4 observations lie in
\* [event - window_hours, event + window_hours] or when the observation
\* closest to the event is the first or the last of the window; a returned
\* measurement has observations before and after the closest one, so its
\* pre- and post-event means are numbers.
C9_NoMeasurementAtBoundary ==
    pc = "impact_returned" =>
        /\ Cardinality(InWindow) < 4 => impact.empty
        /\ (Cardinality(InWindow) >= 4 /\ ClosestAtEdge) => impact.empty
        /\ ~impact.empty =>
              /\ \E j \in InWindow : j < Closest
              /\ \E j \in InWindow : j > Closest
              /\ impact.pre_event_value.d > 0
              /\ impact.post_event_value.d > 0

\* A window of at least 4 observations whose closest one is the last.
C9_Witness ==
    /\ pc = "impact_returned"
    /\ Cardinality(InWindow) >= 4
    /\ \A j \in InWindow : Closest >= j
    /\ impact.empty

\* The values of the window before the observation closest to the event.
PreEventValues == {market_data[j].value : j \in {k \in InWindow : k < Closest}}

\* C16: a measurement whose pre-event values are all equal (one value
\* included) has pre_volatility 0 and volatility_ratio 1; any other has
\* volatility_ratio = post_volatility / pre_volatility; the ratio is never
\* NaN.  The model holds the squares of the three.
C16_VolatilityRatioDefined ==
    (pc = "impact_returned" /\ ~impact.empty) =>
        /\ ~IsNaN(impact.variance_ratio)
        /\ IF Cardinality(PreEventValues) = 1
           THEN impact.pre_variance = Num(0) /\ impact.variance_ratio = Num(1)
           ELSE impact.variance_ratio = RDiv(impact.post_variance, impact.pre_variance)

\* The observations of the window at the smallest distance from the event,
\* and the earlier ones of them.
AtSmallestDistance == {k \in InWindow : \A j \in InWindow : Distance(k) <= Distance(j)}
EarlierOfClosest ==
    {k \in AtSmallestDistance :
        \A j \in AtSmallestDistance : market_data[k].timestamp <= market_data[j].timestamp}

\* C25: the event point of a measurement is an observation at the smallest
\* distance from the event and, of two at the same distance, the earlier one:
\* event_value is its value, the pre-event mean is taken over the
\* observations of the window before it and the post-event mean over those
\* after it.
C25_EventPointClosestEarlier ==
    (pc = "impact_returned" /\ ~impact.empty) =>
        \E k \in EarlierOfClosest :
            LET first == CHOOSE i \in InWindow : \A j \in InWindow : i <= j
                last == CHOOSE i \in InWindow : \A j \in InWindow : i >= j
            IN  /\ impact.event_value = Num(market_data[k].value)
                /\ impact.pre_event_value = RMean(ValuesOf(SubSeq(market_data, first, k - 1)))
                /\ impact.post_event_value = RMean(ValuesOf(SubSeq(market_data, k + 1, last)))

\* A measurement of an event halfway between two observations with different
\* values, the later of which is followed by one observation more.
C25_Witness ==
    /\ pc = "impact_returned" /\ ~impact.empty
    /\ \E i, j \in AtSmallestDistance :
          /\ market_data[i].timestamp < event_timestamp
          /\ market_data[j].timestamp > event_timestamp
          /\ market_data[i].value # market_data[j].value
          /\ impact.event_value = Num(market_data[i].value)
          /\ Cardinality({k \in InWindow : k > j}) = 1

----------------------------------------------------------------------------
(* EventStudyAnalyzer.conduct_event_study, test_significance and           *)
(* run_full_event_study (event_studies.py 177-237, 281-381)                *)

SentimentLabels == {"risk-on", "risk-off", "neutral"}
StudyEventTimes == {0, 2, 3}
StudyWindowHours == {2}

\* The markets of an event study: one observation an hour at most, and
\* enough of them for an event to be measured.
StudyMarkets(n) == {s \in OrderedSeqs(MarketRows, n, 1) : Len(s) >= 4}

\* The row appended to `results` for an event with a measurement.
StudyRow(event, measured) ==
    [news_id |-> event.news_id,
     timestamp |-> event.timestamp,
     sentiment_label |-> event.sentiment_label,
     impact |-> measured]

\* Mutant of StudyIteration: the row is appended whether or not the
\* measurement is empty.
StudyIterationAlwaysAppends(res, market, event, window) ==
    Append(res, StudyRow(event, MeasureImpact(market, event.timestamp, window)))

\* One iteration of `for idx, event in events_df.iterrows()`.
StudyIteration(res, market, event, window) ==
    LET measured == MeasureImpact(market, event.timestamp, window)
    IN  IF ~measured.empty THEN Append(res, StudyRow(event, measured)) ELSE res

\* The labels that have a row: the groups of the ANOVA.
LabelGroups(rows) == {rows[i].sentiment_label : i \in 1..Len(rows)}

\* The groups of the ANOVA: the labels of the list of line 303 with a row.
AnovaGroups(rows) == LabelGroups(rows) \cap SentimentLabels

\* The statistic of ttest_1samp(values, 0), mean / (std / sqrt(n)), held as
\* its sign and its square.
TStatistic(values) ==
    LET mean == RMean(values)
    IN  [sign |-> Sign(mean.n),
         square |-> RDiv(RMul(RMul(mean, mean), Num(Len(values))), RVariance(values))]

\* Mutant of TestSignificance: nothing is reported without an ANOVA.
TestSignificanceNeedsAnova(rows) ==
    IF Len(rows) < 3 \/ Cardinality(AnovaGroups(rows)) < 2 THEN [empty |-> TRUE]
    ELSE [empty |-> FALSE,
          sample_size |-> Len(rows),
          t_statistic |-> TStatistic([i \in 1..Len(rows) |-> rows[i].impact.percent_change]),
          anova_computed |-> TRUE,
          f_statistic |-> "float",
          anova_p_value |-> "float",
          sentiment_labels_differ |-> "bool"]

\* test_significance: {} below 3 rows.  Of the ANOVA the model holds whether
\* it is computed: its three fields are None when it is not; p-values are
\* not modelled.
TestSignificance(rows) ==
    IF Len(rows) < 3 THEN [empty |-> TRUE]
    ELSE LET computed == Cardinality(AnovaGroups(rows)) >= 2
         IN  [empty |-> FALSE,
              sample_size |-> Len(rows),
              t_statistic |-> TStatistic([i \in 1..Len(rows) |-> rows[i].impact.percent_change]),
              anova_computed |-> computed,
              f_statistic |-> IF computed THEN "float" ELSE "None",
              anova_p_value |-> IF computed THEN "float" ELSE "None",
              sentiment_labels_differ |-> IF computed THEN "bool" ELSE "None"]

\* Mutant of ConsistentDirection: neutral events are counted as risk-on ones.
ConsistentDirectionNoConvention(label, subset) ==
    LET positive == Len(SelectSeq(subset, LAMBDA r : RGt(r.impact.absolute_change, Num(0))))
        negative == Len(SelectSeq(subset, LAMBDA r : RLt(r.impact.absolute_change, Num(0))))
    IN  IF label = "risk-off" THEN RMul(Norm(negative, Len(subset)), Num(100))
        ELSE RMul(Norm(positive, Len(subset)), Num(100))

\* consistent_direction of a label's rows (lines 268-276).
ConsistentDirection(label, subset) ==
    LET positive == Len(SelectSeq(subset, LAMBDA r : RGt(r.impact.absolute_change, Num(0))))
        negative == Len(SelectSeq(subset, LAMBDA r : RLt(r.impact.absolute_change, Num(0))))
    IN  IF label = "risk-on" THEN RMul(Norm(positive, Len(subset)), Num(100))
        ELSE IF label = "risk-off" THEN RMul(Norm(negative, Len(subset)), Num(100))
        ELSE Num(50)

\* aggregate_impact_by_sentiment: an entry for each of the three labels that
\* has a row (the median and the volatility ratio are not modelled).
AggregateImpact(rows) ==
    [label \in AnovaGroups(rows) |->
        LET subset == SelectSeq(rows, LAMBDA r : r.sentiment_label = label)
        IN  [count |-> Len(subset),
             avg_absolute_change |->
                 RMean([i \in 1..Len(subset) |-> subset[i].impact.absolute_change]),
             avg_percent_change |->
                 RMean([i \in 1..Len(subset) |-> subset[i].impact.percent_change]),
             consistent_direction |-> ConsistentDirection(label, subset)]]

\* What run_full_event_study returns for the frame of conduct_event_study.
FullEventStudy(rows) ==
    IF rows = <<>> THEN [empty |-> FALSE, error |-> "No events found for analysis"]
    ELSE [empty |-> FALSE,
          error |-> "",
          total_events |-> Len(rows),
          significance_tests |-> TestSignificance(rows)]

InitStudy ==
    /\ pc = "study_loop"
    /\ market_data \in StudyMarkets(MaxObs)
    /\ window_hours \in StudyWindowHours
    /\ event_timestamp = 0 /\ impact = [empty |-> TRUE]
    /\ events_df = <<>> /\ study_results = <<>> /\ study_report = [empty |-> TRUE]
    /\ IdleBt /\ IdleSg /\ IdleCa

\* The loop body runs on the next event; identify_high_impact_events returns
\* the events ordered by timestamp.
StudyEvent ==
    /\ pc = "study_loop"
    /\ Len(events_df) < MaxEvents
    /\ \E t \in StudyEventTimes, label \in SentimentLabels :
        LET event == [news_id |-> Len(events_df) + 1, timestamp |-> t,
                      sentiment_label |-> label]
        IN  /\ events_df # <<>> => events_df[Len(events_df)].timestamp <= t
            /\ events_df' = Append(events_df, event)
            /\ event_timestamp' = t
            /\ impact' = MeasureImpact(market_data, t, window_hours)
            /\ study_results' = StudyIteration(study_results, market_data, event,
                                               window_hours)
    /\ UNCHANGED <<pc, market_data, window_hours, study_report>>
    /\ UNCHANGED <<btVars, sgVars, caVars>>

\* The events are exhausted: conduct_event_study returns its frame and
\* run_full_event_study summarises it.
RunFullEventStudy ==
    /\ pc = "study_loop"
    /\ pc' = "study_done"
    /\ study_report' = FullEventStudy(study_results)
    /\ UNCHANGED <<market_data, window_hours, event_timestamp, impact, events_df,
                   study_results>>
    /\ UNCHANGED <<btVars, sgVars, caVars>>

NextStudy == StudyEvent \/ RunFullEventStudy

SpecStudy == InitStudy /\ [][NextStudy]_vars

----------------------------------------------------------------------------
(* aggregate_impact_by_sentiment and test_significance on any frame        *)
(* (event_studies.py 239-326)                                              *)

\* The rows of an event_study_df: a label, which the table may hold outside
\* the three of the analyzer, and a change of the yield (of 10 before the
\* event) in tenths.
FrameLabels == SentimentLabels \cup {"bullish"}
FrameChanges == {-1, 0, 1}
FrameRows ==
    {[sentiment_label |-> label,
      impact |-> [empty |-> FALSE, absolute_change |-> Norm(c, 10), percent_change |-> Num(c)]] :
        label \in FrameLabels, c \in FrameChanges}

RECURSIVE StudyFrames(_)
StudyFrames(n) ==
    IF n = 0 THEN {<<>>}
    ELSE LET shorter == StudyFrames(n - 1)
         IN  shorter \cup {Append(f, row) : f \in {x \in shorter : Len(x) = n - 1},
                                            row \in FrameRows}

InitStats ==
    /\ pc = "stats_ready"
    /\ study_results \in StudyFrames(MaxStudyRows)
    /\ study_report = [empty |-> TRUE]
    /\ market_data = <<>> /\ window_hours = 0 /\ event_timestamp = 0
    /\ impact = [empty |-> TRUE] /\ events_df = <<>>
    /\ IdleBt /\ IdleSg /\ IdleCa

\* Both functions are applied to the frame, as lines 353-356 do.
StudyStatistics ==
    /\ pc = "stats_ready"
    /\ pc' = "stats_done"
    /\ study_report' = [empty |-> FALSE,
                        by_sentiment |-> AggregateImpact(study_results),
                        significance_tests |-> TestSignificance(study_results)]
    /\ UNCHANGED <<market_data, window_hours, event_timestamp, impact, events_df,
                   study_results>>
    /\ UNCHANGED <<btVars, sgVars, caVars>>

NextStats == StudyStatistics

SpecStats == InitStats /\ [][NextStats]_vars

----------------------------------------------------------------------------
(* Claims about the statistics of a frame, checked under SpecStats.        *)

\* The rows of the frame with a label, and the labels of the analyzer that
\* have one.
RowsOf(label) == {i \in 1..Len(study_results) : study_results[i].sentiment_label = label}
NonEmptyGroups == {label \in {"risk-on", "risk-off", "neutral"} : RowsOf(label) # {}}

\* C18: below 3 rows test_significance returns {}; from 3 rows on it returns
\* sample_size and the t-test, and the three fields of the ANOVA are None
\* exactly when fewer than 2 of the groups have a row.
C18_SignificanceReported ==
    pc = "stats_done" =>
        LET tests == study_report.significance_tests
        IN  /\ Len(study_results) < 3 => tests.empty
            /\ Len(study_results) >= 3 =>
                  /\ ~tests.empty
                  /\ tests.sample_size = Len(study_results)
                  /\ tests.t_statistic.sign \in {-1, 0, 1}
                  /\ (Cardinality(NonEmptyGroups) < 2) <=> (tests.f_statistic = "None")
                  /\ (tests.f_statistic = "None") <=> (tests.anova_p_value = "None")
                  /\ (tests.f_statistic = "None") <=> (tests.sentiment_labels_differ = "None")

\* Three rows of one label: the t-test is there, the ANOVA is not.
C18_Witness ==
    /\ pc = "stats_done"
    /\ Len(study_results) = 3
    /\ Cardinality(NonEmptyGroups) = 1
    /\ ~study_report.significance_tests.empty
    /\ study_report.significance_tests.f_statistic = "None"
    /\ study_report.significance_tests.t_statistic.sign = 1

\* The rows among S whose yield rose, and those whose yield fell.
Risen(S) == {i \in S : study_results[i].impact.absolute_change.n > 0}
Fallen(S) == {i \in S : study_results[i].impact.absolute_change.n < 0}

\* C19: the labels with an entry are those of the three with a row; count is
\* the number of the label's rows; consistent_direction is the share in
\* percent of risen rows for risk-on, of fallen rows for risk-off, and 50 for
\* neutral; the counts add up to the number of rows at most.
C19_AggregateBySentiment ==
    pc = "stats_done" =>
        LET by == study_report.by_sentiment
        IN  /\ DOMAIN by = NonEmptyGroups
            /\ \A label \in DOMAIN by :
                  /\ by[label].count = Cardinality(RowsOf(label))
                  /\ by[label].consistent_direction =
                        IF label = "risk-on"
                            THEN Norm(100 * Cardinality(Risen(RowsOf(label))), by[label].count)
                        ELSE IF label = "risk-off"
                            THEN Norm(100 * Cardinality(Fallen(RowsOf(label))), by[label].count)
                        ELSE Num(50)
            /\ Cardinality(RowsOf("risk-on")) + Cardinality(RowsOf("risk-off"))
                  + Cardinality(RowsOf("neutral")) <= Len(study_results)

\* A frame with a neutral row whose yield rose, a risk-off row whose yield
\* rose too, and a row of a label that is not aggregated.
C19_Witness ==
    /\ pc = "stats_done"
    /\ Len(study_results) = 3
    /\ Risen(RowsOf("neutral")) # {}
    /\ Risen(RowsOf("risk-off")) # {}
    /\ RowsOf("bullish") # {}
    /\ study_report.by_sentiment["neutral"].consistent_direction = Num(50)
    /\ study_report.by_sentiment["risk-off"].consistent_direction = Num(0)

----------------------------------------------------------------------------
(* Claims about the event study, checked under SpecStudy.                  *)

\* The events iterated so far for which measure_market_impact returned a
\* measurement.
Measured(event) == ~MeasureImpact(market_data, event.timestamp, window_hours).empty
MeasuredEvents == SelectSeq(events_df, Measured)

\* C10: the result of conduct_event_study holds one row for each event with
\* a measurement, in event order, and none for the others; total_events and
\* sample_size are the number of measured events.
C10_FailedEventsDropped ==
    LET measured == MeasuredEvents
        n == Len(measured)
    IN  /\ Len(study_results) = n
        /\ \A i \in 1..n :
              /\ study_results[i].news_id = measured[i].news_id
              /\ study_results[i].timestamp = measured[i].timestamp
              /\ ~study_results[i].impact.empty
        /\ pc = "study_done" =>
              /\ study_report.error = "" <=> n > 0
              /\ study_report.error = "" =>
                    /\ study_report.total_events = n
                    /\ ~study_report.significance_tests.empty =>
                          study_report.significance_tests.sample_size = n

\* A study of three events of which the first has no measurement: the rows
\* are those of the second and the third, in that order.
C10_Witness ==
    /\ pc = "study_done"
    /\ Len(events_df) = 3
    /\ ~Measured(events_df[1]) /\ Measured(events_df[2]) /\ Measured(events_df[3])
    /\ events_df[2].timestamp < events_df[3].timestamp
    /\ study_report.total_events = 2

----------------------------------------------------------------------------
(* CorrelationAnalyzer.calculate_lead_lag_correlation                      *)
(* (correlations.py 131-210)                                               *)

\* The fewest rows a correlation is computed on: the literal 10 of
\* `len(merged) < 10` and `len(analysis_df) < 10`.
MinSampleSize == 10

\* Hours of data: a short series of ShortRows hours, and the lengths around
\* the threshold.
ShortRows == 5
RowCounts == {ShortRows} \cup (MinSampleSize - 1)..MaxRows
\* Hours sentiment_aggregates may have no row for.
MissingHours == {{}, {2}}
\* Hours whose avg_sentiment may be missing (NULL in the table).
NaNHours(n) == {1, n - 1, n}
\* The lags a caller asks for; the last one is longer than any series here.
Lags == {1, 2, 24}

\* avg_sentiment of an hour with news, and the yield at an hour (it falls by
\* 0.01 an hour).
SentimentAt(h) == Norm(3, 5)
YieldAt(h) == Norm(400 - h, 100)

\* What get_sentiment_timeseries returns: a row an hour in timestamp order,
\* none for the hours of `missing`, avg_sentiment NaN at the hours of `nans`.
SentimentFrame(n, missing, nans) ==
    SelectSeq([h \in 1..n |-> [timestamp |-> h,
                                avg_sentiment |-> IF h \in nans THEN NaN
                                                  ELSE SentimentAt(h)]],
              LAMBDA row : row.timestamp \notin missing)

\* What get_yield_timeseries returns: a row an hour, NaN values dropped.
YieldFrame(m) == [h \in 1..m |-> [timestamp |-> h, value |-> YieldAt(h)]]

\* The rows of pd.merge(..., on="timestamp", how="inner") that one row of
\* the left frame gives.
JoinRow(row, right) ==
    LET matches == SelectSeq(right, LAMBDA y : y.timestamp = row.timestamp)
    IN  [i \in 1..Len(matches) |->
            [timestamp |-> row.timestamp, avg_sentiment |-> row.avg_sentiment,
             value |-> matches[i].value]]

\* pd.merge(sentiment_df, yield_df, on="timestamp", how="inner"): the order
\* of the left frame is kept.
RECURSIVE Merge(_, _)
Merge(left, right) ==
    IF left = <<>> THEN <<>>
    ELSE JoinRow(Head(left), right) \o Merge(Tail(left), right)

\* merged["value"].shift(-lag): the value `lag` rows further down, NaN
\* where there is no such row.
Shift(merged, lag) ==
    [i \in 1..Len(merged) |->
        IF i + lag \in 1..Len(merged) THEN merged[i + lag].value ELSE NaN]

\* merged[["avg_sentiment", f"yield_change_{lag}h"]]; a row keeps the index
\* label of its row of merged.
LagColumns(merged, lag) ==
    LET shifted == Shift(merged, lag)
    IN  [i \in 1..Len(merged) |->
            [index |-> i,
             avg_sentiment |-> merged[i].avg_sentiment,
             yield_change |-> RSub(shifted[i], merged[i].value)]]

\* Mutant of DropNa: only the rows without a yield change are dropped.
DropNaYieldChangeOnly(rows) ==
    SelectSeq(rows, LAMBDA row : ~IsNaN(row.yield_change))

\* .dropna(): the rows with a missing value in any column are dropped.
DropNa(rows) ==
    SelectSeq(rows, LAMBDA row : ~IsNaN(row.avg_sentiment) /\ ~IsNaN(row.yield_change))

\* One iteration of the loop over lag_hours: the results after it.
LagIteration(res, merged, lag) ==
    LET analysed == DropNa(LagColumns(merged, lag))
    IN  IF Len(analysed) < MinSampleSize THEN res
        ELSE Append(res, [lag_hours |-> lag, sample_size |-> Len(analysed)])

InitCorr ==
    /\ pc = "lead_lag_loop"
    /\ \E n \in RowCounts, missing \in MissingHours :
          \E nans \in SUBSET NaNHours(n) :
              sentiment_df = SentimentFrame(n, missing, nans)
    /\ \E m \in RowCounts : yield_df = YieldFrame(m)
    /\ lag_hours = <<>>
    /\ corr_results = <<>>
    /\ analysis_df = <<>>
    /\ IdleBt /\ IdleSg /\ IdleEs /\ IdleAl

\* The lists of lags a caller may pass.
RECURSIVE LagLists(_)
LagLists(n) ==
    IF n = 0 THEN {<<>>}
    ELSE LET shorter == LagLists(n - 1)
         IN  shorter \cup {Append(l, lag) : l \in {x \in shorter : Len(x) = n - 1},
                                            lag \in Lags}

\* Fewer than 10 merged rows: the empty list is returned before the loop,
\* whatever lags the caller passed.
InsufficientData ==
    /\ pc = "lead_lag_loop"
    /\ lag_hours = <<>>
    /\ Len(Merge(sentiment_df, yield_df)) < MinSampleSize
    /\ lag_hours' \in LagLists(MaxLags)
    /\ pc' = "lead_lag_returned"
    /\ UNCHANGED <<sentiment_df, yield_df, corr_results, analysis_df, alVars>>
    /\ UNCHANGED <<btVars, sgVars, esVars>>

\* The loop body runs on the next lag of lag_hours.
LeadLagStep ==
    /\ pc = "lead_lag_loop"
    /\ Len(lag_hours) < MaxLags
    /\ LET merged == Merge(sentiment_df, yield_df)
       IN  /\ Len(merged) >= MinSampleSize
           /\ \E lag \in Lags :
                 /\ lag_hours' = Append(lag_hours, lag)
                 /\ analysis_df' = DropNa(LagColumns(merged, lag))
                 /\ corr_results' = LagIteration(corr_results, merged, lag)
    /\ UNCHANGED <<pc, sentiment_df, yield_df, alVars>>
    /\ UNCHANGED <<btVars, sgVars, esVars>>

\* lag_hours is exhausted: results is returned.
LeadLagReturn ==
    /\ pc = "lead_lag_loop"
    /\ Len(Merge(sentiment_df, yield_df)) >= MinSampleSize
    /\ pc' = "lead_lag_returned"
    /\ UNCHANGED <<btVars, sgVars, esVars, caVars>>

NextCorr == InsufficientData \/ LeadLagStep \/ LeadLagReturn

SpecCorr == InitCorr /\ [][NextCorr]_vars

----------------------------------------------------------------------------
(* Claims about the CorrelationAnalyzer, checked under SpecCorr.           *)

\* The hours of the aligned series: those both frames have a row for; and
\* the position of an hour among them.
AlignedHours ==
    {sentiment_df[i].timestamp : i \in 1..Len(sentiment_df)} \cap
    {yield_df[i].timestamp : i \in 1..Len(yield_df)}
AlignedRank(h) == Cardinality({g \in AlignedHours : g <= h})

\* The aligned hours that give a pair for a lag: the sentiment is there, and
\* so is an aligned row `lag` rows later.
PairedHours(lag) ==
    {h \in AlignedHours :
        /\ \E i \in 1..Len(sentiment_df) :
              sentiment_df[i].timestamp = h /\ ~IsNaN(sentiment_df[i].avg_sentiment)
        /\ AlignedRank(h) + lag \in 1..Cardinality(AlignedHours)}

Reported(lag) == Cardinality(PairedHours(lag)) >= MinSampleSize

\* C5: the results hold at most one entry per requested lag, each with a
\* sample_size of 10 or more: they are, in the order of the lags, the entries
\* of the lags with 10 or more paired rows, and a lag with fewer has none.
C5_SmallSamplesSkipped ==
    LET reported == SelectSeq(lag_hours, Reported)
    IN  /\ Len(corr_results) <= Len(lag_hours)
        /\ \A i \in 1..Len(corr_results) : corr_results[i].sample_size >= MinSampleSize
        /\ Len(corr_results) = Len(reported)
        /\ \A i \in 1..Len(reported) :
              /\ corr_results[i].lag_hours = reported[i]
              /\ corr_results[i].sample_size = Cardinality(PairedHours(reported[i]))

\* Two lags were asked for on a series with a missing sentiment in a row
\* that has a yield change for both: the first lag has exactly 10 paired rows
\* and is reported, the second has 9 and is not.
C5_Witness ==
    /\ pc = "lead_lag_returned"
    /\ Len(lag_hours) = 2
    /\ \E i \in 1..Len(sentiment_df) :
          /\ IsNaN(sentiment_df[i].avg_sentiment)
          /\ sentiment_df[i].timestamp \in AlignedHours
          /\ AlignedRank(sentiment_df[i].timestamp) + lag_hours[2]
                <= Cardinality(AlignedHours)
    /\ Cardinality(PairedHours(lag_hours[1])) = MinSampleSize
    /\ Cardinality(PairedHours(lag_hours[2])) = MinSampleSize - 1
    /\ Len(corr_results) = 1
    /\ corr_results[1].lag_hours = lag_hours[1]

\* The market value at an hour: that of the row of yield_df with this
\* timestamp, missing when there is none.
MarketAt(t) ==
    IF \E k \in 1..Len(yield_df) : yield_df[k].timestamp = t
    THEN yield_df[CHOOSE k \in 1..Len(yield_df) : yield_df[k].timestamp = t].value
    ELSE NaN

\* C24: every row that enters the correlation of a lag of L hours pairs the
\* sentiment at its timestamp t with (market value at t + L hours) less
\* (market value at t), also when the aligned series has missing hours.
C24_ForwardDifferenceInHours ==
    (lag_hours # <<>> /\ Len(analysis_df) >= MinSampleSize) =>
        LET lag == lag_hours[Len(lag_hours)]
            merged == Merge(sentiment_df, yield_df)
        IN  \A i \in 1..Len(analysis_df) :
                LET t == merged[analysis_df[i].index].timestamp
                IN  analysis_df[i].yield_change = RSub(MarketAt(t + lag), MarketAt(t))

\* C20: 5 hourly aligned points with a sentiment of 0.6 each and a yield
\* falling by 0.01 an hour, lag 1 asked for: the results hold an entry for
\* lag 1 with a sample_size of 4.
C20_ShortSeriesReported ==
    (/\ pc = "lead_lag_returned"
     /\ Cardinality(AlignedHours) = ShortRows
     /\ \A i \in 1..Len(sentiment_df) : sentiment_df[i].avg_sentiment = Norm(3, 5)
     /\ \E k \in 1..Len(lag_hours) : lag_hours[k] = 1)
    => \E i \in 1..Len(corr_results) :
          corr_results[i].lag_hours = 1 /\ corr_results[i].sample_size = ShortRows - 1

----------------------------------------------------------------------------
(* CorrelationAnalyzer.get_sentiment_timeseries, get_yield_timeseries and  *)
(* the merge of their frames (correlations.py 31-129, 152-158, 243)        *)

\* The frequencies of the docstring, '1H', '4H' and '1D', in hours.
Freqs == {1, 4, 24}

\* The hours at which the tables hold rows; hour 0 is a midnight.
RawHours == {0, 1, 4, 8}
RawSentimentValues == {Norm(-1, 2), Norm(1, 2)}
RawMarketValues == {1, 2}

\* What the query on sentiment_aggregates returns: ORDER BY timestamp, one
\* row an hour (the table is keyed by the hour).
RawSentimentRows(n) ==
    OrderedSeqs([timestamp : RawHours, avg_sentiment : RawSentimentValues], n, 1)

\* What the query on market_data returns: ORDER BY timestamp; nothing keeps
\* two quotes of an instrument from having the same timestamp.  The rows
\* without a value, which get_yield_timeseries drops at once, are left out.
RawMarketRows(n) ==
    OrderedSeqs([timestamp : RawHours, value : RawMarketValues], n, 0)

\* The start of the bucket of frequency f an hour falls in (buckets are
\* anchored at midnight).
Floor(h, f) == f * (h \div f)

\* The bucket starts resample(f) emits for rows ordered by timestamp: every
\* bucket from that of the first row to that of the last, empty ones too.
Buckets(rows, f) ==
    IF rows = <<>> THEN <<>>
    ELSE LET first == Floor(rows[1].timestamp, f)
             last == Floor(rows[Len(rows)].timestamp, f)
         IN  [k \in 1..((last - first) \div f + 1) |-> first + (k - 1) * f]

\* The values of a column of the rows of one bucket, missing values left out.
BucketValues(rows, c, b, f) ==
    LET inside == SelectSeq(rows, LAMBDA r : Floor(r.timestamp, f) = b /\ ~IsNaN(r[c]))
    IN  [i \in 1..Len(inside) |-> inside[i][c]]

\* mean() of a bucket: NaN for a bucket without a value.
BucketMean(rows, c, b, f) ==
    LET values == BucketValues(rows, c, b, f)
    IN  IF values = <<>> THEN NaN ELSE RDiv(RSum(values), Num(Len(values)))

\* get_sentiment_timeseries: the rows as they are for '1H', else
\* resample(freq).agg({"avg_sentiment": "mean", ...}).
SentimentTimeseries(rows, f) ==
    IF f = 1 THEN rows
    ELSE LET buckets == Buckets(rows, f)
         IN  [k \in 1..Len(buckets) |->
                 [timestamp |-> buckets[k],
                  avg_sentiment |-> BucketMean(rows, "avg_sentiment", buckets[k], f)]]

\* ffill(): a missing value takes the last value before it.
RECURSIVE FFill(_)
FFill(frame) ==
    IF Len(frame) <= 1 THEN frame
    ELSE LET front == FFill(SubSeq(frame, 1, Len(frame) - 1))
             row == frame[Len(frame)]
         IN  Append(front, IF IsNaN(row.value)
                           THEN [row EXCEPT !.value = front[Len(front)].value]
                           ELSE row)

\* The rows of market_data as a frame: value is the yield, a float.
MarketFrame(rows) ==
    [i \in 1..Len(rows) |-> [timestamp |-> rows[i].timestamp, value |-> Num(rows[i].value)]]

\* Mutant of ResampleFFill: a bucket is labelled with its right edge.
ResampleFFillRightLabel(frame, f) ==
    LET buckets == Buckets(frame, f)
    IN  FFill([k \in 1..Len(buckets) |->
                  [timestamp |-> buckets[k] + f,
                   value |-> BucketMean(frame, "value", buckets[k], f)]])

\* df.resample(freq).mean().ffill() on a frame: buckets are labelled with
\* their left edge.
ResampleFFill(frame, f) ==
    LET buckets == Buckets(frame, f)
    IN  FFill([k \in 1..Len(buckets) |->
                  [timestamp |-> buckets[k],
                   value |-> BucketMean(frame, "value", buckets[k], f)]])

\* get_yield_timeseries: the rows as they are for '1H', else
\* resample(freq).mean().ffill().
YieldTimeseries(rows, f) ==
    IF f = 1 THEN MarketFrame(rows) ELSE ResampleFFill(MarketFrame(rows), f)

InitAlign ==
    /\ pc = "align_query"
    /\ sentiment_rows \in RawSentimentRows(MaxRawRows)
    /\ market_rows \in RawMarketRows(MaxRawRows)
    /\ freq \in Freqs
    /\ sentiment_df = <<>> /\ yield_df = <<>> /\ merged_df = <<>>
    /\ lag_hours = <<>> /\ corr_results = <<>> /\ analysis_df = <<>>
    /\ window_days = 0 /\ rolling_lag_hours = 0 /\ result_df = <<>>
    /\ IdleBt /\ IdleSg /\ IdleEs

\* The two time series are fetched at the frequency and merged on timestamp.
Align ==
    /\ pc = "align_query"
    /\ pc' = "aligned"
    /\ sentiment_df' = SentimentTimeseries(sentiment_rows, freq)
    /\ yield_df' = YieldTimeseries(market_rows, freq)
    /\ merged_df' = Merge(sentiment_df', yield_df')
    /\ UNCHANGED <<sentiment_rows, market_rows, freq, lag_hours, corr_results, analysis_df,
                   window_days, rolling_lag_hours, result_df>>
    /\ UNCHANGED <<btVars, sgVars, esVars>>

NextAlign == Align

SpecAlign == InitAlign /\ [][NextAlign]_vars

----------------------------------------------------------------------------
(* CorrelationAnalyzer.rolling_correlation (correlations.py 212-272)       *)

\* The hours of the 4-hour buckets of the lookback period.
RollingHours(n) == {4 * k : k \in 0..(n - 1)}

\* The rows of sentiment_aggregates: at most one in a bucket, some buckets
\* without news.
RollingSentimentRows(n) ==
    OrderedSeqs([timestamp : RollingHours(n), avg_sentiment : RawSentimentValues], n, 1)

\* The rows of market_data: a quote in each of the first m buckets, the
\* yield falling steadily or moving up and down.
YieldShapes == {"falling", "zigzag"}
QuoteAt(k, shape) == IF shape = "falling" THEN 10 - k ELSE 1 + ((k * k) % 3)
RollingMarketRows(n) ==
    {[k \in 1..m |-> [timestamp |-> 4 * (k - 1), value |-> QuoteAt(k, shape)]] :
        m \in 1..n, shape \in YieldShapes}

WindowDays == {1}
RollingLags == {0, 4, 6}

\* The periods the value column is shifted up by: -(-lag_hours // 4), `//`
\* rounding down.
ShiftPeriods(lag) == -((0 - lag) \div 4)

\* merged with its yield_change column, then merged.dropna().
PairedRows(frame, lag) ==
    LET shifted == Shift(frame, ShiftPeriods(lag))
        changed == [i \in 1..Len(frame) |->
                       [timestamp |-> frame[i].timestamp,
                        avg_sentiment |-> frame[i].avg_sentiment,
                        value |-> frame[i].value,
                        yield_change |-> RSub(shifted[i], frame[i].value)]]
    IN  SelectSeq(changed, LAMBDA row : /\ ~IsNaN(row.avg_sentiment)
                                        /\ ~IsNaN(row.value)
                                        /\ ~IsNaN(row.yield_change))

\* The sample covariance of two columns of equal length.
RCovariance(xs, ys) ==
    LET mx == RMean(xs)
        my == RMean(ys)
        prod == [i \in 1..Len(xs) |-> RMul(RSub(xs[i], mx), RSub(ys[i], my))]
    IN  RDiv(RSum(prod), Num(Len(xs) - 1))

\* A correlation coefficient, held as its sign and its square; the square
\* is NaN when the coefficient is (a column without variance gives 0/0).
Correlation(xs, ys) ==
    LET cov == RCovariance(xs, ys)
    IN  [sign |-> IF IsNaN(cov) THEN 0 ELSE Sign(cov.n),
         square |-> RDiv(RMul(cov, cov), RMul(RVariance(xs), RVariance(ys)))]

\* Mutant of MinPeriods: a point is emitted as soon as pandas can compute one.
MinPeriodsOne(window_periods) == 1

\* min_periods of the rolling window.
MinPeriods(window_periods) == window_periods \div 2

\* .rolling(window, min_periods).corr(...) at row i: NaN with fewer than
\* min_periods rows in the window that ends at row i.
RollingCorrAt(paired, i, window_periods) ==
    LET from == IF i - window_periods + 1 < 1 THEN 1 ELSE i - window_periods + 1
        rows == SubSeq(paired, from, i)
    IN  IF Len(rows) < MinPeriods(window_periods) \/ Len(rows) = 0
        THEN [sign |-> 0, square |-> NaN]
        ELSE Correlation(Col(rows, "avg_sentiment"), Col(rows, "yield_change"))

\* result_df.dropna(): the rows with a correlation.
RollingResult(paired, days) ==
    LET window_periods == days * 6
        all == [i \in 1..Len(paired) |->
                   [timestamp |-> paired[i].timestamp,
                    rolling_correlation |-> RollingCorrAt(paired, i, window_periods)]]
    IN  SelectSeq(all, LAMBDA row : ~IsNaN(row.rolling_correlation.square))

InitRolling ==
    /\ pc = "rolling_called"
    /\ sentiment_rows \in RollingSentimentRows(MaxBuckets)
    /\ market_rows \in RollingMarketRows(MaxBuckets)
    /\ window_days \in WindowDays
    /\ rolling_lag_hours \in RollingLags
    /\ freq = 4
    /\ sentiment_df = <<>> /\ yield_df = <<>> /\ merged_df = <<>> /\ result_df = <<>>
    /\ lag_hours = <<>> /\ corr_results = <<>> /\ analysis_df = <<>>
    /\ IdleBt /\ IdleSg /\ IdleEs

\* One call of rolling_correlation; merged_df is `merged` after its dropna().
RollingCorrelation ==
    /\ pc = "rolling_called"
    /\ pc' = "rolling_returned"
    /\ sentiment_df' = SentimentTimeseries(sentiment_rows, freq)
    /\ yield_df' = YieldTimeseries(market_rows, freq)
    /\ merged_df' = PairedRows(Merge(sentiment_df', yield_df'), rolling_lag_hours)
    /\ result_df' = RollingResult(merged_df', window_days)
    /\ UNCHANGED <<sentiment_rows, market_rows, freq, window_days, rolling_lag_hours,
                   lag_hours, corr_results, analysis_df>>
    /\ UNCHANGED <<btVars, sgVars, esVars>>

NextRolling == RollingCorrelation

SpecRolling == InitRolling /\ [][NextRolling]_vars

----------------------------------------------------------------------------
(* Claims about the alignment, checked under SpecAlign.                    *)

\* C12: the timestamps of the merged frame are strictly increasing, so no
\* timestamp occurs twice, at every frequency.
C12_AlignedStrictlyIncreasing ==
    pc = "aligned" =>
        \A i \in 1..(Len(merged_df) - 1) :
            merged_df[i].timestamp < merged_df[i + 1].timestamp

\* C13: every row of the merged frame holds a sentiment and a market value.
C13_AlignedRowsComplete ==
    pc = "aligned" =>
        \A i \in 1..Len(merged_df) :
            ~IsNaN(merged_df[i].avg_sentiment) /\ ~IsNaN(merged_df[i].value)

\* The market rows sit on the grid of the frequency; and they are regular:
\* on the grid, one row for every period from the first to the last.
OnGrid == \A i \in 1..Len(market_rows) : market_rows[i].timestamp % freq = 0
Regular ==
    /\ OnGrid
    /\ \A i \in 1..(Len(market_rows) - 1) :
          market_rows[i + 1].timestamp = market_rows[i].timestamp + freq

\* Resampling and forward-filling the series again leaves it as it is.
Idempotent == freq # 1 => ResampleFFill(yield_df, freq) = yield_df

\* C21 as stated: a market series whose observations sit on the grid of the
\* frequency comes back as it is, and resampling it again changes nothing.
C21_OnGridUnchanged ==
    (pc = "aligned" /\ OnGrid) =>
        yield_df = MarketFrame(market_rows) /\ Idempotent

\* C21 as amended: a market series with exactly one observation for every
\* period of the grid from its first to its last comes back as it is; and
\* resampling any series again changes nothing.
C21_RegularUnchanged ==
    pc = "aligned" =>
        /\ Regular => yield_df = MarketFrame(market_rows)
        /\ Idempotent

\* A regular series of two 4-hour periods with two values was resampled.
C21_Witness ==
    /\ pc = "aligned" /\ freq = 4
    /\ Regular /\ Len(market_rows) = 2
    /\ market_rows[1].value # market_rows[2].value
    /\ Len(yield_df) = 2

\* C22: when the sentiment input or the market input holds fewer than 2
\* observations, the merged frame is empty.
C22_FewObservationsAlignEmpty ==
    (pc = "aligned" /\ (Len(sentiment_rows) < 2 \/ Len(market_rows) < 2)) =>
        merged_df = <<>>

----------------------------------------------------------------------------
(* Claims about rolling_correlation, checked under SpecRolling.            *)

\* C11: the points rolling_correlation returns number at most the paired
\* rows less the window size in periods plus one (none when there are fewer
\* paired rows than the window holds).
C11_OutputLengthBound ==
    pc = "rolling_returned" =>
        LET full_windows == Len(merged_df) - window_days * 6 + 1
        IN  Len(result_df) <= IF full_windows < 0 THEN 0 ELSE full_windows

\* The paired rows in the trailing window that ends at the row of a
\* timestamp: the row and those before it, the window size at most.
History(t) ==
    LET upto == Cardinality({j \in 1..Len(merged_df) : merged_df[j].timestamp <= t})
    IN  IF upto > window_days * 6 THEN window_days * 6 ELSE upto

\* C26: every point of the output stands at a paired row whose trailing
\* window holds at least half the window size of paired rows, and carries a
\* correlation; a row with less history has no point.
C26_HalfWindowRequired ==
    pc = "rolling_returned" =>
        /\ \A i \in 1..Len(result_df) :
              /\ \E j \in 1..Len(merged_df) : merged_df[j].timestamp = result_df[i].timestamp
              /\ History(result_df[i].timestamp) >= (window_days * 6) \div 2
              /\ ~IsNaN(result_df[i].rolling_correlation.square)
        /\ \A j \in 1..Len(merged_df) :
              History(merged_df[j].timestamp) < (window_days * 6) \div 2 =>
                  \A i \in 1..Len(result_df) :
                      result_df[i].timestamp # merged_df[j].timestamp

\* Four paired rows whose first two vary in both columns: the output starts
\* at the third.
C26_Witness ==
    /\ pc = "rolling_returned"
    /\ Len(merged_df) >= 4
    /\ merged_df[1].avg_sentiment # merged_df[2].avg_sentiment
    /\ merged_df[1].yield_change # merged_df[2].yield_change
    /\ Len(result_df) >= 1
    /\ result_df[1].timestamp = merged_df[3].timestamp

\* C30: the market series is shifted by floor(lag_hours / 4) periods of 4
\* hours: every paired row at timestamp t holds the yield change from t to
\* t + 4 * floor(lag_hours / 4) hours, which is at most lag_hours ahead.
C30_ShiftIsFloorOfLag ==
    pc = "rolling_returned" =>
        \A i \in 1..Len(merged_df) :
            merged_df[i].yield_change =
                RSub(MarketAt(merged_df[i].timestamp + 4 * (rolling_lag_hours \div 4)),
                     merged_df[i].value)

====
